---- MODULE Spec2Model ----
(***************************************************************************)
(* A model of src/script.py: ProjectDataGenerator walks a project tree,    *)
(* emits one source-code entry per non-ignored file, builds the unique-line *)
(* table, samples line-location questions from it, moves the first tenth   *)
(* of them to the training set, appends the structure entry and writes the *)
(* two .jsonl files.                                                       *)
(*                                                                         *)
(* A Python str is a sequence of one-character strings.  The fixed pieces  *)
(* of an f-string or of json.dumps' output are kept as single fragments,   *)
(* so a formatted string is a sequence of strings throughout.              *)
(***************************************************************************)
EXTENDS Integers, Sequences, FiniteSets, TLC

VARIABLES
    files,                \* the project tree, in os.walk's order
    os_sep,               \* os.sep of the platform
    validation_ratio,     \* self.validation_ratio, a rational num/den
    spec,                 \* self.spec: NoSpec (None) or the list of patterns
    pc,                   \* position inside generate_data
    i,                    \* index in files of the next file the loop visits
    jsonl_data,           \* self.jsonl_data
    validation_questions, \* self.validation_questions
    selected_lines,       \* what random.sample returned (line 93)
    unique_lines,         \* self.unique_lines, in insertion order
    token_count,          \* self.token_count
    training_file,        \* the training .jsonl file on disk
    validation_file,      \* the validation .jsonl file on disk
    result                \* what generate_data returned

vars == <<files, os_sep, validation_ratio, spec, pc, i,
          jsonl_data, validation_questions, selected_lines, unique_lines,
          token_count, training_file, validation_file, result>>

(***************************************************************************)
(* Bounds of the model.                                                    *)
(***************************************************************************)
\* the largest number of files in the project tree
MaxFiles == 2
\* populations up to this size are sampled in every possible order
FullPermLimit == 3
\* larger populations are sampled in the table order and in its reverse, each
\* rotated by less than this many places
MaxRotations == 3

(***************************************************************************)
(* Characters and strings.                                                 *)
(***************************************************************************)
LF == "\n"
CR == "\r"
BACKSLASH == "\\"
QUOTE == "\""
Whitespace == {" ", LF, CR, "\t"}

\* str.endswith with one suffix
EndsWith(s, suffix) ==
    /\ Len(s) >= Len(suffix)
    /\ SubSeq(s, Len(s) - Len(suffix) + 1, Len(s)) = suffix

\* str.replace for a one-character old and new
Replace(s, old, new) == [k \in 1..Len(s) |-> IF s[k] = old THEN new ELSE s[k]]

RECURSIVE Join(_, _)
\* sep.join(parts)
Join(parts, sep) ==
    IF parts = <<>> THEN <<>>
    ELSE IF Len(parts) = 1 THEN parts[1]
    ELSE parts[1] \o sep \o Join(Tail(parts), sep)

RECURSIVE TranslateNewlines(_)
\* what a text-mode read makes of the file's characters: universal newlines
TranslateNewlines(s) ==
    IF s = <<>> THEN <<>>
    ELSE IF s[1] = CR
         THEN IF Len(s) >= 2 /\ s[2] = LF
              THEN <<LF>> \o TranslateNewlines(SubSeq(s, 3, Len(s)))
              ELSE <<LF>> \o TranslateNewlines(Tail(s))
         ELSE <<s[1]>> \o TranslateNewlines(Tail(s))

RECURSIVE SplitFrom(_, _)
\* the lines of s, given the characters cur of the line being read
SplitFrom(s, cur) ==
    IF s = <<>> THEN (IF cur = <<>> THEN <<>> ELSE <<cur>>)
    ELSE IF s[1] = LF THEN <<cur>> \o SplitFrom(Tail(s), <<>>)
    ELSE IF s[1] = CR
         THEN IF Len(s) >= 2 /\ s[2] = LF
              THEN <<cur>> \o SplitFrom(SubSeq(s, 3, Len(s)), <<>>)
              ELSE <<cur>> \o SplitFrom(Tail(s), <<>>)
    ELSE SplitFrom(Tail(s), Append(cur, s[1]))

\* str.splitlines
splitlines(s) == SplitFrom(s, <<>>)

RECURSIVE CountTokens(_, _)
\* the number of whitespace-delimited tokens of s; inside says a token is open
CountTokens(s, inside) ==
    IF s = <<>> THEN 0
    ELSE IF s[1] \in Whitespace THEN CountTokens(Tail(s), FALSE)
    ELSE (IF inside THEN 0 ELSE 1) + CountTokens(Tail(s), TRUE)

\* len(self.tokenize(text))
tokenize(text) == CountTokens(text, FALSE)

RECURSIVE JsonEscape(_)
\* the characters of s as json.dumps writes them inside a string
JsonEscape(s) ==
    IF s = <<>> THEN <<>>
    ELSE (IF s[1] = BACKSLASH THEN <<BACKSLASH, BACKSLASH>>
          ELSE IF s[1] = QUOTE THEN <<BACKSLASH, QUOTE>>
          ELSE IF s[1] = LF THEN <<BACKSLASH, "n">>
          ELSE IF s[1] = CR THEN <<BACKSLASH, "r">>
          ELSE <<s[1]>>) \o JsonEscape(Tail(s))

\* json.dumps of a str
JsonString(s) == <<QUOTE>> \o JsonEscape(s) \o <<QUOTE>>

(***************************************************************************)
(* The project tree.  A file is its directory below the project root (a    *)
(* sequence of names), its name, its characters on disk and whether        *)
(* reading it succeeds.                                                    *)
(***************************************************************************)
ProjectName == <<"p">>
Timestamp == <<"20240101_000000">>

NameGitignore == <<".", "g", "i", "t", "i", "g", "n", "o", "r", "e">>
NameA == <<"a", ".", "t", "s">>
NameB == <<"b", ".", "m", "d">>
NameC == <<"c", ".", "t", "s", "x">>
DirSrc == <<"s", "r", "c">>

DataX == <<"x">>
DataCrLf == <<"x", CR, LF, "y", " ", "z">>
DataTen == <<"a", LF, "b", LF, "c", LF, "d", LF, "e", LF,
             "f", LF, "g", LF, "h", LF, "i", LF, "j", LF>>
\* what a file may hold; the long text is tried in a.ts alone
SourceData(name) ==
    IF name = NameA THEN {DataX, DataCrLf, DataTen} ELSE {DataX, DataCrLf}
\* what a file that cannot be read holds is never seen
UnreadableData == {DataX}

IgnoreMd == <<"*", ".", "m", "d", LF>>
IgnoreSrc == <<"s", "r", "c", "/", LF>>
GitignoreData == {IgnoreMd, IgnoreSrc}

Gitignores ==
    {[dir |-> <<>>, name |-> NameGitignore, data |-> d, readable |-> TRUE] :
        d \in GitignoreData}

SourcePlaces == {<<(<<>>), NameA>>, <<(<<>>), NameB>>, <<(<<DirSrc>>), NameC>>}

SourceFiles ==
    UNION {{[dir |-> s[1], name |-> s[2], data |-> d, readable |-> TRUE] :
               d \in SourceData(s[2])} : s \in SourcePlaces}
    \cup {[dir |-> s[1], name |-> s[2], data |-> d, readable |-> FALSE] :
             s \in SourcePlaces, d \in UnreadableData}

AllFiles == Gitignores \cup SourceFiles

SamePlace(f, g) == f.dir = g.dir /\ f.name = g.name

RECURSIVE Trees(_)
\* the trees of n files in the order os.walk yields them: top-down, the
\* files of the root before those of its subdirectories
Trees(n) ==
    IF n = 0 THEN {<<>>}
    ELSE UNION {{Append(t, f) :
                    f \in {g \in AllFiles :
                             /\ \A k \in 1..(n - 1) : ~SamePlace(t[k], g)
                             /\ g.dir = <<>> =>
                                  \A k \in 1..(n - 1) : t[k].dir = <<>>}} :
                t \in Trees(n - 1)}

Projects == UNION {Trees(n) : n \in 0..MaxFiles}

ValidationRatios ==
    {[num |-> 0, den |-> 1], [num |-> 2, den |-> 5], [num |-> 1, den |-> 1]}

(***************************************************************************)
(* Paths and the ignore spec.                                              *)
(***************************************************************************)
NoSpec == <<"None">>

\* os.path.relpath(os.path.join(root, file), self.project_path)
relpath(f) == Join(Append(f.dir, f.name), <<os_sep>>)

\* PathSpec.from_lines('gitwildmatch', file): the patterns, one per line
from_lines(text) == splitlines(text)

\* whether one gitwildmatch pattern matches the file: "name/" matches the
\* files below a directory of that name, "*suffix" the files with a path
\* component ending in suffix, any other pattern a component of that name
PatternMatches(pattern, f) ==
    IF pattern = <<>> THEN FALSE
    ELSE IF pattern[Len(pattern)] = "/"
    THEN \E k \in 1..Len(f.dir) :
            f.dir[k] = SubSeq(pattern, 1, Len(pattern) - 1)
    ELSE LET parts == Append(f.dir, f.name) IN
         IF pattern[1] = "*"
         THEN \E k \in 1..Len(parts) : EndsWith(parts[k], Tail(pattern))
         ELSE \E k \in 1..Len(parts) : parts[k] = pattern

\* self.spec.match_file(file_path); the project path in front of the file's
\* own path is taken to hold no name that a pattern matches
match_file(patterns, f) ==
    \E k \in 1..Len(patterns) : PatternMatches(patterns[k], f)

\* load_gitignore: the patterns of the root's .gitignore, None without one
load_gitignore(tree) ==
    IF \E k \in 1..Len(tree) : tree[k].dir = <<>> /\ tree[k].name = NameGitignore
    THEN LET k == CHOOSE k \in 1..Len(tree) :
                      tree[k].dir = <<>> /\ tree[k].name = NameGitignore
         IN from_lines(TranslateNewlines(tree[k].data))
    ELSE NoSpec

\* a test that never skips a file
IgnoredNever(f) == FALSE

\* the test of lines 31 and 120: `self.spec and self.spec.match_file(...)`;
\* None and a PathSpec without patterns are both falsy
Ignored(f) == spec # NoSpec /\ Len(spec) > 0 /\ match_file(spec, f)

(***************************************************************************)
(* Reading a file.                                                         *)
(***************************************************************************)
\* get_file_content with no try/except: the error leaves the function
get_file_content_uncaught(f) ==
    IF f.readable THEN [raised |-> FALSE, value |-> TranslateNewlines(f.data)]
    ELSE [raised |-> TRUE, value |-> <<>>]

\* get_file_content opening the file with newline='': no translation
get_file_content_raw(f) ==
    IF f.readable THEN [raised |-> FALSE, value |-> f.data]
    ELSE [raised |-> FALSE, value |-> <<>>]

\* get_file_content: the text of the file, "" when reading fails
get_file_content(f) ==
    IF f.readable THEN [raised |-> FALSE, value |-> TranslateNewlines(f.data)]
    ELSE [raised |-> FALSE, value |-> <<>>]

(***************************************************************************)
(* The entries.                                                            *)
(***************************************************************************)
Entry(question, answer) ==
    [messages |-> <<[role |-> "user", content |-> question],
                    [role |-> "assistant", content |-> answer]>>]

\* generate_source_code_entry
generate_source_code_entry(file_path, content) ==
    Entry(<<"What is the source code of ">> \o file_path \o <<" for the ">>
              \o ProjectName \o <<" project?">>,
          content)

\* json.dumps({"file_path": file_path})
DumpsFilePath(file_path) ==
    <<"{", QUOTE, "file_path", QUOTE, ": ">> \o JsonString(file_path) \o <<"}">>

\* one element of the list generate_validation_questions returns
LineLocationEntry(item) ==
    Entry(<<"In the ">> \o ProjectName
              \o <<" project, where can I find this line of code: ", "'">>
              \o item.line \o <<"'", "?">>,
          DumpsFilePath(item.file_path))

\* json.dumps({"project_structure": project_structure})
DumpsProjectStructure(project_structure) ==
    <<"{", QUOTE, "project_structure", QUOTE, ": [">>
        \o Join([k \in 1..Len(project_structure) |->
                    JsonString(project_structure[k])], <<", ">>)
        \o <<"]}">>

\* generate_project_structure_question
generate_project_structure_question(project_structure) ==
    Entry(<<"What is the file structure of the ">> \o ProjectName
              \o <<" project? ",
                   "Please answer with json with the next structure: ",
                   "{", QUOTE, "project_structure", QUOTE, ": [",
                   QUOTE, "file1", QUOTE, ", ", QUOTE, "file2", QUOTE,
                   ", ...]}">>,
          DumpsProjectStructure(project_structure))

\* json.dump(entry, outfile): the line written for an entry
DumpEntry(entry) ==
    <<"{", QUOTE, "messages", QUOTE, ": [{", QUOTE, "role", QUOTE, ": ",
      QUOTE, "user", QUOTE, ", ", QUOTE, "content", QUOTE, ": ">>
        \o JsonString(entry.messages[1].content)
        \o <<"}, {", QUOTE, "role", QUOTE, ": ", QUOTE, "assistant", QUOTE,
             ", ", QUOTE, "content", QUOTE, ": ">>
        \o JsonString(entry.messages[2].content)
        \o <<"}]}">>

(***************************************************************************)
(* The unique-line table: a dict, kept as its items in insertion order.    *)
(***************************************************************************)
HasLine(table, line) == \E k \in 1..Len(table) : table[k].line = line

RECURSIVE AddLinesOverwriting(_, _, _)
\* the loop of update_unique_lines without its `not in` test: a dict
\* assignment keeps the key's place and replaces its value
AddLinesOverwriting(table, lines, file_path) ==
    IF lines = <<>> THEN table
    ELSE AddLinesOverwriting(
             IF HasLine(table, Head(lines))
             THEN [k \in 1..Len(table) |->
                     IF table[k].line = Head(lines)
                     THEN [line |-> Head(lines), file_path |-> file_path]
                     ELSE table[k]]
             ELSE Append(table, [line |-> Head(lines), file_path |-> file_path]),
             Tail(lines), file_path)

RECURSIVE AddLines(_, _, _)
\* the loop of update_unique_lines
AddLines(table, lines, file_path) ==
    IF lines = <<>> THEN table
    ELSE AddLines(
             IF HasLine(table, Head(lines)) THEN table
             ELSE Append(table, [line |-> Head(lines), file_path |-> file_path]),
             Tail(lines), file_path)

\* update_unique_lines
update_unique_lines(table, content, file_path) ==
    AddLines(table, splitlines(content), file_path)

(***************************************************************************)
(* Sampling and the split.                                                 *)
(***************************************************************************)
\* int(n * ratio) for a ratio num/den
IntOfProduct(n, ratio) == (n * ratio.num) \div ratio.den

\* the 0.1 of lines 46 and 48
TrainingShare == [num |-> 1, den |-> 10]

Injections(n) ==
    {p \in [1..n -> 1..n] : \A a, b \in 1..n : a # b => p[a] # p[b]}

Rotations(n) ==
    {[j \in 1..n |-> ((j + r - 1) % n) + 1] : r \in 0..(MaxRotations - 1)}
        \cup {[j \in 1..n |-> n - ((j + r - 1) % n)] :
                  r \in 0..(MaxRotations - 1)}

\* the orders in which a population of n items may be drawn
SampleOrders(n) == IF n <= FullPermLimit THEN Injections(n) ELSE Rotations(n)

\* the possible results of random.sample(population, k)
random_sample(population, k) ==
    {[j \in 1..k |-> population[p[j]]] : p \in SampleOrders(Len(population))}

\* a sample size rounded up instead of truncated
SampleSizeCeiling(table, ratio) ==
    (Len(table) * ratio.num + ratio.den - 1) \div ratio.den

\* the size of the sample, line 93
SampleSize(table, ratio) == IntOfProduct(Len(table), ratio)

\* the index at which lines 46 and 48 cut the questions
SplitPoint(questions) == IntOfProduct(Len(questions), TrainingShare)

\* a slice taken from the end of the questions instead of the start
LastSlice(questions) ==
    SubSeq(questions, Len(questions) - SplitPoint(questions) + 1, Len(questions))

\* line 46: the questions added to the training data
TrainingSlice(questions) == SubSeq(questions, 1, SplitPoint(questions))

\* a remainder that keeps the questions already given to the training data
AllQuestions(questions) == questions

\* line 48: the questions left for validation
RemainingQuestions(questions) ==
    SubSeq(questions, SplitPoint(questions) + 1, Len(questions))

(***************************************************************************)
(* The project structure.                                                  *)
(***************************************************************************)
\* an allow-list that forgot its second extension
IsListedTsOnly(name) == EndsWith(name, <<".", "t", "s">>)

\* file.endswith(('.ts', '.tsx'))
IsListed(name) ==
    EndsWith(name, <<".", "t", "s">>) \/ EndsWith(name, <<".", "t", "s", "x">>)

RECURSIVE StructureOf(_)
\* the loop of get_project_structure over the files in walk order
StructureOf(tree) ==
    IF tree = <<>> THEN <<>>
    ELSE (IF IsListed(Head(tree).name) /\ ~Ignored(Head(tree))
          THEN <<Replace(relpath(Head(tree)), os_sep, "/")>>
          ELSE <<>>) \o StructureOf(Tail(tree))

\* get_project_structure
get_project_structure == StructureOf(files)

(***************************************************************************)
(* Writing the files.                                                      *)
(***************************************************************************)
NotWritten == [status |-> "none", lines |-> <<>>]

\* write_jsonl_file with no try/except: the error leaves the function
write_jsonl_file_uncaught(data, ok) ==
    IF ok
    THEN [raised |-> FALSE,
          file |-> [status |-> "written",
                    lines |-> [k \in 1..Len(data) |-> DumpEntry(data[k])]]]
    ELSE [raised |-> TRUE, file |-> [status |-> "error", lines |-> <<>>]]

\* write_jsonl_file with a loop that stops one entry early
write_jsonl_file_short(data, ok) ==
    IF ok
    THEN [raised |-> FALSE,
          file |-> [status |-> "written",
                    lines |-> [k \in 1..(Len(data) - 1) |-> DumpEntry(data[k])]]]
    ELSE [raised |-> FALSE, file |-> [status |-> "error", lines |-> <<>>]]

\* write_jsonl_file: ok says whether opening and writing succeed
write_jsonl_file(data, ok) ==
    IF ok
    THEN [raised |-> FALSE,
          file |-> [status |-> "written",
                    lines |-> [k \in 1..Len(data) |-> DumpEntry(data[k])]]]
    ELSE [raised |-> FALSE, file |-> [status |-> "error", lines |-> <<>>]]

FileName(kind) == ProjectName \o <<"_", kind, "_">> \o Timestamp \o <<".jsonl">>

NoResult == [project_name |-> <<>>, token_count |-> -1,
             training_file |-> <<>>, validation_file |-> <<>>]

(***************************************************************************)
(* The state after construction, lines 13-22.                              *)
(***************************************************************************)
Init ==
    /\ files \in Projects
    /\ os_sep \in {"/", BACKSLASH}
    /\ validation_ratio \in ValidationRatios
    /\ \E use_gitignore \in BOOLEAN :
          spec = IF use_gitignore THEN load_gitignore(files) ELSE NoSpec
    /\ pc = "walk"
    /\ i = 1
    /\ jsonl_data = <<>>
    /\ validation_questions = <<>>
    /\ selected_lines = <<>>
    /\ unique_lines = <<>>
    /\ token_count = 0
    /\ training_file = NotWritten
    /\ validation_file = NotWritten
    /\ result = NoResult

(***************************************************************************)
(* generate_data, one action per step.                                     *)
(***************************************************************************)
\* lines 26-32: the loop reaches a file the ignore spec matches
SkipFile ==
    /\ pc = "walk"
    /\ i <= Len(files)
    /\ Ignored(files[i])
    /\ i' = i + 1
    /\ UNCHANGED <<files, os_sep, validation_ratio, spec, pc,
                   jsonl_data, validation_questions, selected_lines,
                   unique_lines, token_count, training_file, validation_file,
                   result>>

\* lines 26-40: the loop reaches a file the ignore spec does not match
ProcessFile ==
    /\ pc = "walk"
    /\ i <= Len(files)
    /\ ~Ignored(files[i])
    /\ LET read == get_file_content(files[i])
           content == read.value
           relative_file_path == relpath(files[i])
       IN IF read.raised
          THEN /\ pc' = "aborted"
               /\ UNCHANGED <<i, jsonl_data, token_count, unique_lines>>
          ELSE /\ jsonl_data' =
                     Append(jsonl_data,
                            generate_source_code_entry(relative_file_path, content))
               /\ token_count' = token_count + tokenize(content)
               /\ unique_lines' =
                     update_unique_lines(unique_lines, content, relative_file_path)
               /\ i' = i + 1
               /\ pc' = pc
    /\ UNCHANGED <<files, os_sep, validation_ratio, spec,
                   validation_questions, selected_lines, training_file,
                   validation_file, result>>

\* line 43, generate_validation_questions
GenerateValidationQuestions ==
    /\ pc = "walk"
    /\ i > Len(files)
    /\ \E s \in random_sample(unique_lines,
                              SampleSize(unique_lines, validation_ratio)) :
          /\ selected_lines' = s
          /\ validation_questions' = [k \in 1..Len(s) |-> LineLocationEntry(s[k])]
    /\ pc' = "split"
    /\ UNCHANGED <<files, os_sep, validation_ratio, spec, i,
                   jsonl_data, unique_lines, token_count, training_file,
                   validation_file, result>>

\* lines 46-48: the first tenth of the questions goes to the training data
SplitQuestions ==
    /\ pc = "split"
    /\ jsonl_data' = jsonl_data \o TrainingSlice(validation_questions)
    /\ validation_questions' = RemainingQuestions(validation_questions)
    /\ pc' = "structure"
    /\ UNCHANGED <<files, os_sep, validation_ratio, spec, i,
                   selected_lines, unique_lines, token_count, training_file,
                   validation_file, result>>

\* lines 51-52: the structure entry is appended to the training data
AddProjectStructure ==
    /\ pc = "structure"
    /\ jsonl_data' =
          Append(jsonl_data,
                 generate_project_structure_question(get_project_structure))
    /\ pc' = "write_training"
    /\ UNCHANGED <<files, os_sep, validation_ratio, spec, i,
                   validation_questions, selected_lines, unique_lines,
                   token_count, training_file, validation_file, result>>

\* line 143: write_jsonl_file(self.jsonl_data, training_file_name)
WriteTraining ==
    /\ pc = "write_training"
    /\ \E ok \in BOOLEAN :
          LET w == write_jsonl_file(jsonl_data, ok)
          IN IF w.raised
             THEN pc' = "aborted" /\ UNCHANGED training_file
             ELSE pc' = "write_validation" /\ training_file' = w.file
    /\ UNCHANGED <<files, os_sep, validation_ratio, spec, i,
                   jsonl_data, validation_questions, selected_lines,
                   unique_lines, token_count, validation_file, result>>

\* line 144: write_jsonl_file(self.validation_questions, validation_file_name)
WriteValidation ==
    /\ pc = "write_validation"
    /\ \E ok \in BOOLEAN :
          LET w == write_jsonl_file(validation_questions, ok)
          IN IF w.raised
             THEN pc' = "aborted" /\ UNCHANGED validation_file
             ELSE pc' = "return" /\ validation_file' = w.file
    /\ UNCHANGED <<files, os_sep, validation_ratio, spec, i,
                   jsonl_data, validation_questions, selected_lines,
                   unique_lines, token_count, training_file, result>>

\* lines 58-63: the summary is returned
Return ==
    /\ pc = "return"
    /\ result' = [project_name |-> ProjectName,
                  token_count |-> token_count,
                  training_file |-> FileName("training"),
                  validation_file |-> FileName("validation")]
    /\ pc' = "done"
    /\ UNCHANGED <<files, os_sep, validation_ratio, spec, i,
                   jsonl_data, validation_questions, selected_lines,
                   unique_lines, token_count, training_file, validation_file>>

Next ==
    \/ SkipFile
    \/ ProcessFile
    \/ GenerateValidationQuestions
    \/ SplitQuestions
    \/ AddProjectStructure
    \/ WriteTraining
    \/ WriteValidation
    \/ Return

Spec == Init /\ [][Next]_vars

(***************************************************************************)
(* What the properties speak about.                                        *)
(***************************************************************************)
\* the file is matched by the active ignore spec
Matched(f) == spec # NoSpec /\ match_file(spec, f)

\* the text a read of the file yields: its characters with \r\n and \r
\* turned into \n, nothing when the read fails
TextRead(f) == IF f.readable THEN TranslateNewlines(f.data) ELSE <<>>

\* the relative path with forward slashes
SlashPath(f) == Join(Append(f.dir, f.name), <<"/">>)

SourceQuestion(f) ==
    <<"What is the source code of ">> \o relpath(f) \o <<" for the ">>
        \o ProjectName \o <<" project?">>

IsSourceEntry(e) == e.messages[1].content[1] = "What is the source code of "
IsLineLocation(e) == e.messages[1].content[1] = "In the "
IsStructureEntry(e) ==
    e.messages[1].content[1] = "What is the file structure of the "

\* the places in the training data of the source-code entries of file f
SourceEntriesOf(f) ==
    {j \in 1..Len(jsonl_data) : jsonl_data[j].messages[1].content = SourceQuestion(f)}

Count(seq, Test(_)) == Cardinality({j \in 1..Len(seq) : Test(seq[j])})

Finished == pc = "done"
AfterSplit == pc \in {"structure", "write_training", "write_validation",
                      "return", "done"}
AfterStructure == pc \in {"write_training", "write_validation", "return", "done"}

\* the files the loop has visited so far
Visited == 1..(i - 1)

\* the lines of the text read from a file
LinesOf(f) ==
    LET lines == splitlines(TextRead(f)) IN {lines[k] : k \in 1..Len(lines)}

\* the lines of every file of the tree
LineSets == [k \in 1..Len(files) |-> LinesOf(files[k])]

\* which files of the tree the ignore spec matches
MatchedSet == {k \in 1..Len(files) : Matched(files[k])}

RECURSIVE SumTokens(_)
SumTokens(tree) ==
    IF tree = <<>> THEN 0
    ELSE (IF Matched(Head(tree)) THEN 0 ELSE tokenize(TextRead(Head(tree))))
             + SumTokens(Tail(tree))

\* the paths the structure entry has to list
ListedPaths ==
    LET keep(f) == ~Matched(f) /\ (EndsWith(f.name, <<".", "t", "s">>)
                                     \/ EndsWith(f.name, <<".", "t", "s", "x">>))
        kept == SelectSeq(files, keep)
    IN [k \in 1..Len(kept) |-> SlashPath(kept[k])]

StructureEntry == generate_project_structure_question(ListedPaths)

\* the source-code entries in traversal order
SourceEntries ==
    LET keep(f) == ~Matched(f)
        kept == SelectSeq(files, keep)
    IN [k \in 1..Len(kept) |-> Entry(SourceQuestion(kept[k]), TextRead(kept[k]))]

\* the sampled line-location entries in sampling order
SampledEntries == [k \in 1..Len(selected_lines) |-> LineLocationEntry(selected_lines[k])]

Floor(n, num, den) == (n * num) \div den

(***************************************************************************)
(* C1 as stated: after generate_data, every file the ignore spec does not  *)
(* match has exactly one source-code entry in the training set, and the    *)
(* entry's assistant content is the file's exact text.                     *)
(***************************************************************************)
C1_ExactText ==
    Finished =>
        \A k \in 1..Len(files) :
            ~Matched(files[k]) =>
                /\ Cardinality(SourceEntriesOf(files[k])) = 1
                /\ \A j \in SourceEntriesOf(files[k]) :
                      jsonl_data[j].messages[2].content = files[k].data

(***************************************************************************)
(* C1 amended: after generate_data, every file the ignore spec does not    *)
(* match has exactly one source-code entry in the training set, and the    *)
(* entry's assistant content is the text a text-mode read of the file      *)
(* yields (\r\n and \r become \n), or the empty string when the read fails. *)
(***************************************************************************)
C1_TextAsRead ==
    Finished =>
        \A k \in 1..Len(files) :
            ~Matched(files[k]) =>
                /\ Cardinality(SourceEntriesOf(files[k])) = 1
                /\ \A j \in SourceEntriesOf(files[k]) :
                      jsonl_data[j].messages[2].content = TextRead(files[k])

\* a finished run over a file with \r\n line ends and a file that cannot be read
C1_Witness ==
    /\ Finished
    /\ \E k \in 1..Len(files) :
          ~Matched(files[k]) /\ files[k].readable /\ files[k].data = DataCrLf
    /\ \E k \in 1..Len(files) : ~Matched(files[k]) /\ ~files[k].readable

(***************************************************************************)
(* C2: a file the active ignore spec matches gets no source-code entry,    *)
(* adds nothing to token_count, puts no line into the unique-line table    *)
(* and is not listed in the project structure.                             *)
(***************************************************************************)
C2_IgnoredLeavesNoTrace ==
    /\ \A k \in MatchedSet :
          /\ SourceEntriesOf(files[k]) = {}
          /\ \A t \in 1..Len(unique_lines) :
                unique_lines[t].file_path # relpath(files[k])
    /\ LET lines == LineSets
           matched == MatchedSet
       IN \A t \in 1..Len(unique_lines) :
             \E k \in Visited \ matched : unique_lines[t].line \in lines[k]
    /\ token_count = SumTokens(SubSeq(files, 1, i - 1))
    /\ Count(jsonl_data, IsSourceEntry)
          = Cardinality({k \in Visited : ~Matched(files[k])})
    /\ AfterStructure => jsonl_data[Len(jsonl_data)] = StructureEntry
    /\ Finished => result.token_count = SumTokens(files)

\* a finished run that skipped a file with text and lines of its own
C2_Witness ==
    /\ Finished
    /\ \E k \in 1..Len(files) :
          /\ Matched(files[k])
          /\ files[k].readable
          /\ files[k].name = NameB
          /\ files[k].data = DataCrLf
    /\ \E k \in 1..Len(files) : ~Matched(files[k])

(***************************************************************************)
(* C3: at every point the unique-line table holds each line text at most   *)
(* once, and the path stored for a line is that of the first visited,      *)
(* non-ignored file in traversal order whose content has the line.         *)
(***************************************************************************)
C3_FirstOccurrenceWins ==
    /\ \A a, b \in 1..Len(unique_lines) :
          a # b => unique_lines[a].line # unique_lines[b].line
    /\ LET lines == LineSets
           scanned == Visited \ MatchedSet
       IN /\ \A t \in 1..Len(unique_lines) :
                LET holders == {k \in scanned : unique_lines[t].line \in lines[k]}
                IN /\ holders # {}
                   /\ unique_lines[t].file_path =
                         relpath(files[CHOOSE k \in holders :
                                          \A m \in holders : k <= m])
          /\ \A k \in scanned :
                \A line \in lines[k] : HasLine(unique_lines, line)

\* two visited files hold the same line
C3_Witness ==
    \E a, b \in Visited \ MatchedSet :
        /\ a < b
        /\ LinesOf(files[a]) \cap LinesOf(files[b]) # {}

C5_StructureListsTsFiles ==
    AfterStructure =>
        /\ jsonl_data[Len(jsonl_data)].messages[2].content
              = DumpsProjectStructure(ListedPaths)
        /\ \A k \in 1..Len(files) :
              ~Matched(files[k]) => SourceEntriesOf(files[k]) # {}

\* a finished run on Windows over a listed file in a subdirectory and a
\* file of another extension
C5_Witness ==
    /\ Finished
    /\ os_sep = BACKSLASH
    /\ \E k \in 1..Len(files) : ~Matched(files[k]) /\ files[k].name = NameC
    /\ \E k \in 1..Len(files) : ~Matched(files[k]) /\ files[k].name = NameB

(***************************************************************************)
(* C6 as stated: on an empty project directory both output files hold      *)
(* zero lines and the reported token_count is 0.                           *)
(***************************************************************************)
C6_EmptyFiles ==
    (/\ Finished
     /\ files = <<>>
     /\ training_file.status = "written"
     /\ validation_file.status = "written") =>
        /\ Len(training_file.lines) = 0
        /\ Len(validation_file.lines) = 0
        /\ result.token_count = 0

(***************************************************************************)
(* C6 amended: on an empty project directory the training set is the       *)
(* structure entry alone, with an empty project_structure array, and the   *)
(* validation set is empty; the training file, when written, holds that    *)
(* one line, the validation file, when written, holds none, and the        *)
(* reported token_count is 0.                                              *)
(***************************************************************************)
C6_OnlyStructureEntry ==
    (Finished /\ files = <<>>) =>
        /\ jsonl_data = <<generate_project_structure_question(<<>>)>>
        /\ validation_questions = <<>>
        /\ training_file.status = "written" =>
              training_file.lines = <<DumpEntry(jsonl_data[1])>>
        /\ validation_file.status = "written" => validation_file.lines = <<>>
        /\ result.token_count = 0

\* a finished run on an empty directory, both files written
C6_Witness ==
    /\ Finished
    /\ files = <<>>
    /\ training_file.status = "written"
    /\ validation_file.status = "written"

(***************************************************************************)
(* C7: a failed read does not abort generate_data: the file gets exactly   *)
(* one source-code entry with empty content, adds no token and no line,    *)
(* the other files are processed as usual, and the run goes on to return   *)
(* its summary.                                                            *)
(***************************************************************************)
C7_ReadFailureIsLocal ==
    /\ pc # "aborted"
    /\ pc = "walk" => i <= Len(files) + 1
    /\ Finished => result # NoResult
    /\ \A k \in Visited :
          (~Matched(files[k]) /\ ~files[k].readable) =>
              /\ Cardinality(SourceEntriesOf(files[k])) = 1
              /\ \A j \in SourceEntriesOf(files[k]) :
                    jsonl_data[j].messages[2].content = <<>>
    /\ \A k \in Visited :
          (~Matched(files[k]) /\ files[k].readable) =>
              /\ Cardinality(SourceEntriesOf(files[k])) = 1
              /\ \A j \in SourceEntriesOf(files[k]) :
                    jsonl_data[j].messages[2].content
                        = TranslateNewlines(files[k].data)
    /\ LET good(f) == ~Matched(f) /\ f.readable
           read == SelectSeq(SubSeq(files, 1, i - 1), good)
       IN /\ token_count = SumTokens(read)
          /\ {unique_lines[t].line : t \in 1..Len(unique_lines)}
                = UNION {LinesOf(read[k]) : k \in 1..Len(read)}
          /\ \A t \in 1..Len(unique_lines) :
                \E k \in 1..Len(read) : unique_lines[t].file_path = relpath(read[k])

\* a finished run that met an unreadable file before a readable one
C7_Witness ==
    /\ Finished
    /\ \E a, b \in 1..Len(files) :
          /\ a < b
          /\ ~Matched(files[a]) /\ ~files[a].readable
          /\ ~Matched(files[b]) /\ files[b].readable

(***************************************************************************)
(* C8: a failed write raises nothing out of generate_data: the other file  *)
(* is still written, the training and validation sets stay as they were,   *)
(* and the summary with the project name, the token count and both file    *)
(* names is returned.                                                      *)
(***************************************************************************)
C8_WriteFailureIsLocal ==
    /\ [](/\ pc # "aborted"
          /\ training_file.status = "error" =>
                pc \in {"write_validation", "return", "done"}
          /\ pc \in {"return", "done"} =>
                training_file.status # "none" /\ validation_file.status # "none"
          /\ Finished =>
                result = [project_name |-> ProjectName,
                          token_count |-> token_count,
                          training_file |->
                              ProjectName \o <<"_", "training", "_">>
                                  \o Timestamp \o <<".jsonl">>,
                          validation_file |->
                              ProjectName \o <<"_", "validation", "_">>
                                  \o Timestamp \o <<".jsonl">>])
    /\ [][AfterStructure =>
             /\ jsonl_data' = jsonl_data
             /\ validation_questions' = validation_questions
             /\ token_count' = token_count]_vars

\* a finished run whose training write failed and whose validation write
\* succeeded
C8_Witness ==
    /\ Finished
    /\ training_file.status = "error"
    /\ validation_file.status = "written"
    /\ Len(validation_file.lines) >= 1

(***************************************************************************)
(* C9: the training set is the source-code entries in traversal order,     *)
(* then the first tenth (rounded down) of the sampled line-location        *)
(* entries in sampling order, then the one structure entry; the validation *)
(* set is the rest of the sampled entries in sampling order; the files are *)
(* written only once both sets are complete.                               *)
(***************************************************************************)
C9_OrderOfEntries ==
    /\ AfterStructure =>
          LET cut == Len(selected_lines) \div 10
          IN /\ jsonl_data = SourceEntries \o SubSeq(SampledEntries, 1, cut)
                                \o <<StructureEntry>>
             /\ validation_questions
                   = SubSeq(SampledEntries, cut + 1, Len(SampledEntries))
             /\ \A j \in 1..Len(validation_questions) :
                   IsLineLocation(validation_questions[j])
             /\ Count(jsonl_data, IsStructureEntry) = 1
             /\ IsStructureEntry(jsonl_data[Len(jsonl_data)])
    /\ training_file.status # "none" => AfterStructure
    /\ validation_file.status # "none" => AfterStructure
    /\ training_file.status = "written" =>
          training_file.lines = [k \in 1..Len(jsonl_data) |-> DumpEntry(jsonl_data[k])]
    /\ validation_file.status = "written" =>
          validation_file.lines
              = [k \in 1..Len(validation_questions) |->
                    DumpEntry(validation_questions[k])]

\* both files written, the training set holding entries of all three kinds
C9_Witness ==
    /\ Finished
    /\ training_file.status = "written"
    /\ validation_file.status = "written"
    /\ Count(jsonl_data, IsSourceEntry) >= 2
    /\ Count(jsonl_data, IsLineLocation) >= 1
    /\ selected_lines[1] # unique_lines[1]

(***************************************************************************)
(* C10: the line-location entries of the training set and the validation   *)
(* entries never ask about the same line twice, and each answer names the  *)
(* path the unique-line table stores for the line, a scanned file that     *)
(* holds the line.                                                         *)
(***************************************************************************)
C10_DisjointQuestions ==
    AfterSplit =>
        LET isloc(e) == IsLineLocation(e)
            asked == SelectSeq(jsonl_data, isloc) \o validation_questions
            \* the line a question quotes, between its fixed head and tail
            quoted == [a \in 1..Len(asked) |->
                         LET q == asked[a].messages[1].content
                         IN SubSeq(q, Len(ProjectName) + 4, Len(q) - 2)]
            \* for each question, the items of the table that hold its line
            itemsOf == [a \in 1..Len(asked) |->
                          {t \in 1..Len(unique_lines) :
                              unique_lines[t].line = quoted[a]}]
            lines == LineSets
            scanned == (1..Len(files)) \ MatchedSet
        IN /\ Cardinality({quoted[a] : a \in 1..Len(asked)}) = Len(asked)
           /\ \A a \in 1..Len(asked) :
                 /\ Cardinality(itemsOf[a]) = 1
                 /\ \A t \in itemsOf[a] :
                       /\ asked[a] = LineLocationEntry(unique_lines[t])
                       /\ asked[a].messages[2].content
                             = <<"{", QUOTE, "file_path", QUOTE, ": ", QUOTE>>
                                  \o JsonEscape(unique_lines[t].file_path)
                                  \o <<QUOTE, "}">>
                       /\ \E k \in scanned :
                             /\ unique_lines[t].file_path = relpath(files[k])
                             /\ unique_lines[t].line \in lines[k]

\* a finished run with line-location entries in both sets
C10_Witness ==
    /\ Finished
    /\ Count(jsonl_data, IsLineLocation) >= 1
    /\ Len(validation_questions) >= 2
    /\ os_sep = BACKSLASH
    /\ \E t \in 1..Len(selected_lines) : selected_lines[t].file_path # NameA

====
